---------------------------- MODULE Spec2Model ----------------------------
(***************************************************************************)
(* Static-site export pipeline of the Astro + ApostropheCMS starter kit:   *)
(*   frontend/scripts/generate-static-site.js  (crawler, orchestrator)     *)
(*   frontend/scripts/generateSitemap.js       (URL normalizer, sitemap)   *)
(*                                                                         *)
(* Strings are sequences of one-character strings, so that the string      *)
(* functions of the scripts (startsWith, endsWith, includes, split, the    *)
(* regular expressions, the URL parser, path.join) are computed character  *)
(* by character as the code computes them.                                 *)
(***************************************************************************)
EXTENDS Integers, Sequences, FiniteSets, TLC

(***************************************************************************)
(* Bounds of the model.                                                    *)
(***************************************************************************)
MaxRawLen == 5
MaxUrls == 3
MaxRetries == 2
MaxCpus == 2
MaxPairLen == 4
MaxPrefixLen == 3
MaxItems == 2
MaxPages == 2
MaxPieces == 3
MaxCount == 9
MaxRefs == 2
MaxEndpoints == 2

(***************************************************************************)
(* Program constants.                                                      *)
(***************************************************************************)
\* Math.min(8, Math.max(2, ...)): the pool size is clamped to 2..8.
MinPool == 2
MaxPool == 8

(***************************************************************************)
(* String helpers (JavaScript String.prototype semantics).                 *)
(***************************************************************************)
\* The characters raw URLs are drawn from.
Chars == {"/", ".", "a", "?", "#"}

\* The characters of paths and prefixes drawn in pairs.
PathChars == {"/", ".", "a"}

\* [a-z0-9] under the /i flag.
AlnumChars ==
  {"a","b","c","d","e","f","g","h","i","j","k","l","m","n","o","p","q","r",
   "s","t","u","v","w","x","y","z","0","1","2","3","4","5","6","7","8","9"}

Strings(alphabet, n) == UNION {[1..k -> alphabet] : k \in 0..n}

StartsWith(s, p) == Len(s) >= Len(p) /\ SubSeq(s, 1, Len(p)) = p

EndsWith(s, p) == Len(s) >= Len(p) /\ SubSeq(s, Len(s) - Len(p) + 1, Len(s)) = p

Includes(s, c) == \E i \in 1..Len(s) : s[i] = c

\* Index of the first character of s that is in cs, Len(s)+1 when there is none.
IndexOfAny(s, cs) ==
  IF \E i \in 1..Len(s) : s[i] \in cs
    THEN CHOOSE i \in 1..Len(s) : s[i] \in cs /\ \A j \in 1..(i-1) : s[j] \notin cs
    ELSE Len(s) + 1

\* s.split(c)[0]
SplitFirst(s, c) == SubSeq(s, 1, IndexOfAny(s, {c}) - 1)

\* s.split("/")
RECURSIVE SplitSlash(_)
SplitSlash(s) ==
  LET i == IndexOfAny(s, {"/"})
  IN IF i > Len(s) THEN <<s>>
     ELSE <<SubSeq(s, 1, i - 1)>> \o SplitSlash(SubSeq(s, i + 1, Len(s)))

\* "/" + segments.join("/")
RECURSIVE JoinSlash(_)
JoinSlash(segs) ==
  IF segs = <<>> THEN <<>> ELSE <<"/">> \o Head(segs) \o JoinSlash(Tail(segs))

\* s with its leading run of "/" removed.
RECURSIVE SkipSlashes(_)
SkipSlashes(s) ==
  IF s # <<>> /\ Head(s) = "/" THEN SkipSlashes(Tail(s)) ELSE s

(***************************************************************************)
(* new URL(urlString, "http://dummy"), the WHATWG URL parser, on strings   *)
(* over Chars.  No such string holds a scheme, so every input is parsed    *)
(* relative to the base: the query ("?") and fragment ("#") are cut off,   *)
(* a leading "//" starts an authority (extra slashes are skipped, the host *)
(* runs to the next "/", an empty host is a parse failure), and the path   *)
(* state drops "." segments and resolves ".." segments.                    *)
(***************************************************************************)
UrlBeforeQuery(urlString) == SubSeq(urlString, 1, IndexOfAny(urlString, {"?", "#"}) - 1)

UrlHost(s) == SplitFirst(SkipSlashes(s), "/")

\* TRUE when new URL(urlString, base) throws.
UrlThrows(urlString) ==
  LET s == UrlBeforeQuery(urlString)
  IN StartsWith(s, <<"/", "/">>) /\ UrlHost(s) = <<>>

\* The path state of the parser over the "/"-separated segments.
RECURSIVE UrlPathSegments(_, _)
UrlPathSegments(segs, path) ==
  IF segs = <<>> THEN path
  ELSE LET seg == Head(segs)
           last == Len(segs) = 1
       IN IF seg = <<".", ".">>
            THEN UrlPathSegments(Tail(segs),
                   (IF path = <<>> THEN path ELSE SubSeq(path, 1, Len(path) - 1))
                     \o (IF last THEN << <<>> >> ELSE <<>>))
          ELSE IF seg = <<".">>
            THEN UrlPathSegments(Tail(segs), path \o (IF last THEN << <<>> >> ELSE <<>>))
          ELSE UrlPathSegments(Tail(segs), Append(path, seg))

UrlParsePath(s) ==
  LET rest == IF s # <<>> /\ Head(s) = "/" THEN Tail(s) ELSE s
  IN JoinSlash(UrlPathSegments(SplitSlash(rest), <<>>))

\* new URL(urlString, "http://dummy").pathname, when the parse succeeds.
UrlPathname(urlString) ==
  LET s == UrlBeforeQuery(urlString)
  IN IF StartsWith(s, <<"/", "/">>)
       THEN LET r == SkipSlashes(s)
            IN UrlParsePath(SubSeq(r, Len(UrlHost(s)) + 1, Len(r)))
       ELSE UrlParsePath(s)

(***************************************************************************)
(* generateSitemap.js: the URL normalizer.                                 *)
(***************************************************************************)
\* /\.[a-z0-9]+$/i.test(pathname)
isFileLike(pathname) ==
  \E i \in 1..Len(pathname) :
    /\ pathname[i] = "."
    /\ i < Len(pathname)
    /\ \A j \in (i+1)..Len(pathname) : pathname[j] \in AlnumChars

\* The try branch: the URL parsed, pathname is url.pathname.
normalizeUrlParsed(pathname0) ==
  LET pathname == IF ~StartsWith(pathname0, <<"/">>) THEN <<"/">> \o pathname0 ELSE pathname0
  IN IF /\ ~EndsWith(pathname, <<".", "h", "t", "m", "l">>)
        /\ ~EndsWith(pathname, <<".", "h", "t", "m">>)
        /\ ~Includes(pathname, ".")
       THEN IF ~EndsWith(pathname, <<"/">>) THEN pathname \o <<"/">> ELSE pathname
       ELSE pathname

\* The catch branch: naive splitting on "?" and "#".
normalizeUrlFallback(urlString) ==
  LET pathname0 == SplitFirst(SplitFirst(urlString, "?"), "#")
      pathname == IF ~StartsWith(pathname0, <<"/">>) THEN <<"/">> \o pathname0 ELSE pathname0
  IN IF ~isFileLike(pathname) /\ ~EndsWith(pathname, <<"/">>)
       THEN pathname \o <<"/">>
       ELSE pathname

normalizeUrl(urlString) ==
  IF UrlThrows(urlString)
    THEN normalizeUrlFallback(urlString)
    ELSE normalizeUrlParsed(UrlPathname(urlString))

(***************************************************************************)
(* Array.from(new Set(list)).sort(): insertion-ordered deduplication, then *)
(* the default sort, which orders strings by UTF-16 code unit.             *)
(***************************************************************************)
\* The characters in use, in ascending UTF-16 code unit order.
CodeOrder ==
  <<"#", ".", "/", "0", "1", "2", "3", "4", "5", "6", "7", "8", "9", "?",
    "a", "b", "c", "d", "e", "f", "g", "h", "i", "j", "k", "l", "m", "n", "o",
    "p", "q", "r", "s", "t", "u", "v", "w", "x", "y", "z">>

CharCode(c) == CHOOSE i \in 1..Len(CodeOrder) : CodeOrder[i] = c

\* a < b as JavaScript compares strings.
RECURSIVE StrLess(_, _)
StrLess(a, b) ==
  IF b = <<>> THEN FALSE
  ELSE IF a = <<>> THEN TRUE
  ELSE IF Head(a) = Head(b) THEN StrLess(Tail(a), Tail(b))
  ELSE CharCode(Head(a)) < CharCode(Head(b))

\* Array.from(new Set(list)): the first occurrence of each value, in order.
RECURSIVE Dedupe(_)
Dedupe(list) ==
  IF list = <<>> THEN <<>>
  ELSE LET front == Dedupe(SubSeq(list, 1, Len(list) - 1))
           x == list[Len(list)]
       IN IF \E i \in 1..Len(front) : front[i] = x THEN front ELSE Append(front, x)

\* x put in its place in the sorted list.
RECURSIVE InsertSorted(_, _)
InsertSorted(x, list) ==
  IF list = <<>> THEN <<x>>
  ELSE IF StrLess(Head(list), x) THEN <<Head(list)>> \o InsertSorted(x, Tail(list))
  ELSE <<x>> \o list

\* list.sort()
RECURSIVE Sort(_)
Sort(list) ==
  IF list = <<>> THEN <<>> ELSE InsertSorted(Head(list), Sort(Tail(list)))

DedupeSort(list) == Sort(Dedupe(list))

\* list.map(f) for the string functions below.
MapNormalize(list) == [i \in 1..Len(list) |-> normalizeUrl(list[i])]

(***************************************************************************)
(* generateSitemap.js: fetchAllPages and generateSitemap, as functions of  *)
(* what the API answered.  locale is <<>> when no locale is given.         *)
(***************************************************************************)
\* An item of an API answer is its _url; NoUrl is an item without one.
NoUrl == <<"undefined">>

\* typeof page._url === "string"
IsString(url) == url # NoUrl

\* if (piece?._url): the empty string is falsy.
IsTruthy(url) == url # NoUrl /\ url # <<>>

\* fetchAllPages adding the bare root whenever it is missing, whatever the
\* locale.
fetchAllPagesBareRoot(pages, locale) ==
  LET urls == MapNormalize(SelectSeq(pages, IsString))
  IN DedupeSort(IF Includes(urls, <<"/">>) THEN urls ELSE Append(urls, <<"/">>))

\* fetchAllPages without lines 112-125: no homepage is added.
fetchAllPagesNoRoot(pages, locale) == DedupeSort(MapNormalize(SelectSeq(pages, IsString)))

fetchAllPages(pages, locale) ==
  LET urls == MapNormalize(SelectSeq(pages, IsString))
      has(u) == \E i \in 1..Len(urls) : urls[i] = u
      expectedHomepage == <<"/">> \o locale \o <<"/">>
      withHome ==
        IF locale # <<>>
          THEN IF ~has(expectedHomepage) /\ ~has(<<"/">>)
                 THEN Append(urls, <<"/">>) ELSE urls
          ELSE IF ~has(<<"/">>) THEN Append(urls, <<"/">>) ELSE urls
  IN DedupeSort(withHome)

\* The loop of fetchAllPieces over the results the API answered.
fetchAllPieces(results) == MapNormalize(SelectSeq(results, IsTruthy))

\* generateSitemap without its final dedupe and sort.
generateSitemapUnsorted(pageUrls, pieceUrls) == pageUrls \o pieceUrls

generateSitemap(pageUrls, pieceUrls) == DedupeSort(pageUrls \o pieceUrls)

(***************************************************************************)
(* generate-static-site.js: applyLocalePrefix.                             *)
(***************************************************************************)
\* The callback without its double-prefix check.
applyLocalePrefixOneAlways(url, localePrefix) ==
  IF url = <<"/">> THEN localePrefix \o <<"/">> ELSE localePrefix \o url

applyLocalePrefixOne(url, localePrefix) ==
  IF StartsWith(url, localePrefix \o <<"/">>) \/ url = localePrefix THEN url
  ELSE IF url = <<"/">> THEN localePrefix \o <<"/">>
  ELSE localePrefix \o url

applyLocalePrefix(urls, localePrefix) ==
  IF localePrefix = <<>> THEN urls
  ELSE [i \in 1..Len(urls) |-> applyLocalePrefixOne(urls[i], localePrefix)]

(***************************************************************************)
(* generate-static-site.js: writeHtmlForPath, the Output File Mapping.     *)
(* The result is the written file's path relative to the output root.      *)
(***************************************************************************)
IndexHtml == <<"i", "n", "d", "e", "x", ".", "h", "t", "m", "l">>

\* path.normalize over "/"-separated segments: empty and "." segments are
\* dropped, ".." removes the segment before it.
RECURSIVE PathSegments(_, _)
PathSegments(segs, acc) ==
  IF segs = <<>> THEN acc
  ELSE LET seg == Head(segs)
       IN IF seg = <<>> \/ seg = <<".">> THEN PathSegments(Tail(segs), acc)
          ELSE IF seg = <<".", ".">>
            THEN PathSegments(Tail(segs),
                   IF acc = <<>> THEN acc ELSE SubSeq(acc, 1, Len(acc) - 1))
          ELSE PathSegments(Tail(segs), Append(acc, seg))

\* path.join(rootDir, relative), relative to rootDir.
PathJoin(relative) ==
  LET joined == JoinSlash(PathSegments(SplitSlash(relative), <<>>))
  IN IF joined = <<>> THEN joined ELSE Tail(joined)

\* urlPath.replace(/^\//, "")
StripLeadingSlash(urlPath) ==
  IF urlPath # <<>> /\ Head(urlPath) = "/" THEN Tail(urlPath) ELSE urlPath

writeHtmlForPath(urlPath) ==
  LET isFile == isFileLike(urlPath)
  IN IF isFile THEN PathJoin(StripLeadingSlash(urlPath))
     ELSE IF urlPath = <<"/">> THEN IndexHtml
     ELSE PathJoin(StripLeadingSlash(urlPath) \o <<"/">> \o IndexHtml)

\* The file the crawl worker writes for a sitemap entry:
\* writeHtmlForPath(outputDir, new URL(urlPath, "http://dummy").pathname, html)
OutputFile(urlPath) == writeHtmlForPath(UrlPathname(urlPath))

(***************************************************************************)
(* generate-static-site.js: fetchWithRetry and mapLimit.                   *)
(***************************************************************************)
\* What one fetch of an attempt ends with: a 2xx response, a 4xx response
\* other than 429, a 429, a 5xx, or a rejection (network error, or the abort
\* of fetchWithTimeout).
Outcomes == {"ok", "4xx", "429", "5xx", "reject"}

Min(a, b) == IF a < b THEN a ELSE b

Max(a, b) == IF a > b THEN a ELSE b

RECURSIVE Pow2(_)
Pow2(n) == IF n = 0 THEN 1 ELSE 2 * Pow2(n - 1)

\* Math.min(1000 * Math.pow(2, attempt), 5000)
backoffDelay(attempt) == Min(1000 * Pow2(attempt), 5000)

\* One iteration of the loop of fetchWithRetry, after the fetch of `attempt`
\* ended with `outcome`: "return" the response, "retry" after the backoff,
\* or "throw" lastError.  The throw for a 4xx is inside the try block, so
\* the catch clause turns it into lastError like any other error.
\* The loop without its `if (response.ok) return response`.
fetchWithRetryStepNoReturn(outcome, attempt, retries) ==
  IF attempt < retries THEN "retry" ELSE "throw"

\* The loop running one attempt too many (attempt <= retries + 1).
fetchWithRetryStepExtra(outcome, attempt, retries) ==
  IF outcome = "ok" THEN "return"
  ELSE IF attempt <= retries THEN "retry" ELSE "throw"

fetchWithRetryStep(outcome, attempt, retries) ==
  IF outcome = "ok" THEN "return"
  ELSE LET thrownInTry == outcome = "reject" \/ outcome = "4xx"
           lastError == outcome
       IN IF attempt < retries THEN "retry" ELSE "throw"

\* The catch clause counting the failure without keeping its entry.
RecordFailureNoEntry(results, item) == [results EXCEPT !.failed = @ + 1]

\* results.failed++; results.errors.push({ item, error: error.message }).
\* The text of the message is not modelled.
RecordFailure(results, item) ==
  [results EXCEPT !.failed = @ + 1,
                  !.errors = Append(@, [item |-> item, error |-> "message"])]

\* A runner of mapLimit awaiting its worker: the item it took, the attempt of
\* fetchWithRetry, and where the worker is suspended ("fetch": the request is
\* in flight, "backoff": the timer before the next attempt, "body": awaiting
\* response.text()) with the timer's delay.  Observed of its item: sent, the
\* requests issued for it; client, whether one was answered 4xx (not 429);
\* okAt, how many had been issued when a 2xx arrived (0: none did).
NewRunner(item) ==
  [item |-> item, attempt |-> 0, phase |-> "fetch", delay |-> 0,
   sent |-> 1, client |-> FALSE, okAt |-> 0]

\* Number(value) of a value that is no number (lines 36 and 37).  No count
\* the model draws is this low.
NaN == -999

\* attempt <= retries, the condition of the loop of fetchWithRetry (line 59):
\* a comparison with NaN is false.
attemptDue(attempt, retries) == retries # NaN /\ attempt <= retries

\* The catch clause of processQueue when the worker rejected with undefined:
\* results.failed++ is done, then reading error.message throws a TypeError.
RecordUndefined(results) == [results EXCEPT !.failed = @ + 1]

\* processQueue from the top of its while loop, up to the await of the first
\* fetch of the item it takes (new URL(urlPath, previewUrl) throws before any
\* request) or to its return when the queue is empty.  c.worker is the
\* retries the worker passes to fetchWithRetry.  When not even the first
\* attempt is due, fetchWithRetry issues no request and throws lastError,
\* which is undefined (line 80): the catch clause of processQueue throws in
\* its turn, the runner's promise is rejected and its loop is over.  No
\* timer or response is awaited on the way, so this happens before
\* anything else does.
RECURSIVE processQueue(_)
processQueue(c) ==
  IF c.queue = <<>> THEN c
  ELSE LET item == Head(c.queue)
       IN IF UrlThrows(item)
            THEN processQueue([c EXCEPT !.queue = Tail(@),
                                        !.results = RecordFailure(@, item)])
          ELSE IF ~attemptDue(0, c.worker)
            THEN [c EXCEPT !.queue = Tail(@),
                           !.results = RecordUndefined(@),
                           !.rejected = TRUE]
            ELSE [c EXCEPT !.queue = Tail(@),
                           !.runners = @ \cup {NewRunner(item)},
                           !.requests = @ + 1]

\* Array.from({ length: limit }, processQueue): every runner runs to its
\* first await before the next one starts.
RECURSIVE startRunners(_, _)
startRunners(limit, c) ==
  IF limit = 0 THEN c ELSE startRunners(limit - 1, processQueue(c))

\* What Math.max and Math.min make of NaN.
MathMax(a, b) == IF a = NaN \/ b = NaN THEN NaN ELSE Max(a, b)

MathMin(a, b) == IF a = NaN \/ b = NaN THEN NaN ELSE Min(a, b)

\* Line 314.  flag is --concurrency as parseCliArgs left it: absent, or
\* Number(value).
poolSize(flag, cpus) ==
  MathMin(MaxPool, MathMax(MinPool, IF flag.given THEN flag.value ELSE cpus))

\* The length of Array.from({ length: limit }): ToLength(NaN) is 0.
ArrayLength(limit) == IF limit = NaN THEN 0 ELSE limit

\* mapLimit starting one runner too many.
mapLimitExtra(items, limit, worker) ==
  startRunners(ArrayLength(limit) + 1,
    [queue |-> items,
     results |-> [success |-> 0, failed |-> 0, errors |-> <<>>],
     runners |-> {},
     requests |-> 0,
     worker |-> worker,
     rejected |-> FALSE])

\* mapLimit up to its await of Promise.all(runners): rejected tells whether
\* the promise of a runner is rejected, so that Promise.all rejects.
mapLimit(items, limit, worker) ==
  startRunners(ArrayLength(limit),
    [queue |-> items,
     results |-> [success |-> 0, failed |-> 0, errors |-> <<>>],
     runners |-> {},
     requests |-> 0,
     worker |-> worker,
     rejected |-> FALSE])

(***************************************************************************)
(* The output directory: a set of [path, content] with one entry per path. *)
(***************************************************************************)
WriteFile(fs, path, content) ==
  {f \in fs : f.path # path} \cup {[path |-> path, content |-> content]}

FileExists(fs, path) == \E f \in fs : f.path = path

\* The paths of the files of the output directory.
Paths(fs) == {f.path : f \in fs}

NotFoundHtml == <<"4", "0", "4", ".", "h", "t", "m", "l">>

UploadsFile == <<"u", "p", "l", "o", "a", "d", "s", "/", "a">>

AssetFile == <<"_", "a", "s", "t", "r", "o", "/", "a">>

\* What the output directory holds before the run.
OldFiles == {[path |-> <<"o", "l", "d">>, content |-> "stale"]}

(***************************************************************************)
(* State.                                                                  *)
(***************************************************************************)
VARIABLES
  \* main of generate-static-site.js
  pc,           \* where main is: "start", "waiting", "sitemap", "crawl",
                \* "uploads", "notfound", "finish", "exited"
  exitCode,     \* the process exit status, -1 while it runs
  completed,    \* TRUE once main printed "Static export complete"
  preview,      \* the preview server child: "none", "running", "killed"
  retries,      \* --retries
  concurrency,  \* Math.min(8, Math.max(2, --concurrency or the CPU count))
  allUrls,      \* the sitemap handed to the crawler
  files,        \* the output directory
  \* mapLimit
  queue,        \* the items no runner has taken yet
  runners,      \* the runners awaiting their worker
  results,      \* { success, failed, errors }
  requests,     \* the requests issued to the preview server for sitemap URLs
  \* the URL functions applied to drawn inputs
  urlString,    \* a raw URL
  other,        \* a second raw URL
  localePrefix, \* a locale prefix
  pathname,     \* normalizeUrl(urlString)
  pathname2,    \* normalizeUrl(pathname)
  prefixed,     \* applyLocalePrefix([pathname], localePrefix)
  prefixed2,    \* applyLocalePrefix(prefixed, localePrefix)
  \* generateSitemap and the locale loop of main
  localeConfig, \* the locale configuration: a list of [locale, prefix], or
                \* NoLocaleConfig in single-locale mode
  todo,         \* the locales whose sitemap is still to be generated
  pagesDone,    \* the result of fetchAllPages of the running generateSitemap
  collected,    \* the URLs that went into the final merge, in arrival order
  api,          \* what the API answers, where a specification fixes it in
                \* advance: [pages, root, endpoints, collection, failAt, failWith]
  disc,         \* the running generateSitemap's piece discovery, request by
                \* request: [stage, candidates, heuristic, types, page, asked,
                \* urls]
  \* the process and what it did to its surroundings
  env,          \* [frontKey, flag, cpus]: whether APOS_EXTERNAL_FRONT_KEY is
                \* set, the --concurrency flag, os.cpus().length
  built,        \* TRUE once `npm run build` was run
  network,      \* TRUE once a request was issued
  message,      \* the last error main printed, "" when none
  \* asset reconciliation
  assets        \* [candidates, copied, scanned, pending, attempts, downloaded,
                \* failed]: the candidate upload directories, the ones copied,
                \* whether the HTML was scanned, the upload URLs still to
                \* download, the paths whose download was attempted, counts

mainVars == <<pc, exitCode, completed, preview, retries, concurrency, allUrls, files>>
crawlVars == <<queue, runners, results, requests>>
urlVars == <<urlString, other, localePrefix, pathname, pathname2, prefixed, prefixed2>>
sitemapVars == <<localeConfig, api, todo, pagesDone, collected, disc>>
hostVars == <<env, built, network, message>>
assetVars == <<assets>>
vars == <<mainVars, crawlVars, urlVars, sitemapVars, hostVars, assetVars>>

\* A value no normalizeUrl result takes (results hold no "?").
NotYet == <<"?">>

\* The sitemaps the crawl is run on: what generateSitemap or the locale merge
\* can hand over, from the normalized forms of a few raw URLs.
SitePaths ==
  {normalizeUrl(u) : u \in {<<"/">>, <<"a">>, <<"/", "a", ".">>, <<"/", "a", ".", "/">>}}

RECURSIVE Lists(_, _)
Lists(S, n) ==
  IF n = 0 THEN {<<>>}
  ELSE LET shorter == Lists(S, n - 1)
       IN shorter \cup {Append(l, x) : l \in {k \in shorter : Len(k) = n - 1}, x \in S}

Sitemaps == {DedupeSort(l) : l \in Lists(SitePaths, MaxUrls)}

\* localeConfig: null when --localeConfig is not given, else the entries of
\* the loaded object in insertion order.
NoLocaleConfig == [given |-> FALSE, locales |-> <<>>]

InitUrlIdle ==
  /\ urlString = <<>>
  /\ other = <<>>
  /\ localePrefix = <<>>
  /\ pathname = NotYet
  /\ pathname2 = NotYet
  /\ prefixed = <<>>
  /\ prefixed2 = <<>>

\* The API's answers are not fixed in advance.
NoApi ==
  [pages |-> <<>>, root |-> <<>>, endpoints |-> <<>>, collection |-> <<>>,
   failAt |-> 0, failWith |-> "status"]

\* No discovery under way.
NoDiscovery ==
  [stage |-> "idle", candidates |-> <<>>, heuristic |-> 0, types |-> <<>>,
   page |-> 0, asked |-> <<>>, urls |-> <<>>]

InitSitemapIdle ==
  /\ localeConfig = NoLocaleConfig
  /\ todo = <<>>
  /\ pagesDone = <<>>
  /\ collected = <<>>
  /\ disc = NoDiscovery
  /\ api = NoApi

\* The candidate directories copyAposUploadsFromFs lists.
NumCandidates == 4

\* No candidate looked at, nothing scanned or downloaded.
NoAssets ==
  [candidates |-> [i \in 1..NumCandidates |-> "missing"], copied |-> <<>>,
   scanned |-> FALSE, pending |-> <<>>, attempts |-> <<>>,
   downloaded |-> 0, failed |-> 0]

\* --concurrency absent.
NoFlag == [given |-> FALSE, value |-> 0]

InitHostIdle ==
  /\ env = [frontKey |-> TRUE, flag |-> NoFlag, cpus |-> MinPool]
  /\ built = FALSE
  /\ network = FALSE
  /\ message = ""
  /\ assets = NoAssets

InitMainIdle ==
  /\ pc = "idle"
  /\ exitCode = -1
  /\ completed = FALSE
  /\ preview = "none"
  /\ retries = 0
  /\ concurrency = 0
  /\ allUrls = <<>>
  /\ files = {}
  /\ queue = <<>>
  /\ runners = {}
  /\ results = [success |-> 0, failed |-> 0, errors |-> <<>>]
  /\ requests = 0

(***************************************************************************)
(* Spec: main of generate-static-site.js.                                  *)
(***************************************************************************)
Init ==
  /\ env \in [frontKey : BOOLEAN, flag : {NoFlag}, cpus : MinPool..MaxCpus]
  /\ pc = "start"
  /\ exitCode = -1
  /\ completed = FALSE
  /\ preview = "none"
  /\ retries \in 0..MaxRetries
  /\ concurrency = poolSize(env.flag, env.cpus)
  /\ allUrls = <<>>
  /\ files = OldFiles
  /\ queue = <<>>
  /\ runners = {}
  /\ results = [success |-> 0, failed |-> 0, errors |-> <<>>]
  /\ requests = 0
  /\ InitUrlIdle
  /\ InitSitemapIdle
  /\ built = FALSE
  /\ network = FALSE
  /\ message = ""
  /\ assets = NoAssets

\* shutdown()
shutdown(child) == IF child = "running" THEN "killed" ELSE child

\* The catch clause of main, and the early process.exit(1) calls: the error
\* is printed, shutdown() is called and the process exits with status 1.
ExitFailed(msg) ==
  /\ pc' = "exited"
  /\ exitCode' = 1
  /\ preview' = shutdown(preview)
  /\ message' = msg

\* main running the build before it checks the front key.
StartupBuildFirst ==
  /\ pc = "start"
  /\ built' = TRUE
  /\ \E buildOk \in BOOLEAN :
       IF ~buildOk THEN ExitFailed("Astro build failed")
       ELSE IF ~env.frontKey THEN ExitFailed("APOS_EXTERNAL_FRONT_KEY is required")
       ELSE /\ pc' = "spawned"
            /\ preview' = "running"
            /\ UNCHANGED <<exitCode, message>>
  /\ UNCHANGED <<completed, retries, concurrency, allUrls, files>>
  /\ UNCHANGED <<crawlVars, urlVars, assetVars, sitemapVars, env, network>>

\* Lines 308-347: the front key check, the build, the spawn of the preview.
Startup ==
  /\ pc = "start"
  /\ IF ~env.frontKey
       THEN /\ ExitFailed("APOS_EXTERNAL_FRONT_KEY is required")
            /\ UNCHANGED built
       ELSE /\ built' = TRUE
            /\ \E buildOk \in BOOLEAN :
                 IF buildOk
                   THEN /\ pc' = "spawned"
                        /\ preview' = "running"
                        /\ UNCHANGED <<exitCode, message>>
                   ELSE ExitFailed("Astro build failed")
  /\ UNCHANGED <<completed, retries, concurrency, allUrls, files>>
  /\ UNCHANGED <<crawlVars, urlVars, assetVars, sitemapVars, env, network>>

\* Lines 349-376: shutdown is defined and the handlers of exit, SIGINT,
\* SIGTERM and uncaughtException are installed; main enters its try block.
InstallHandlers ==
  /\ pc = "spawned"
  /\ pc' = "waiting"
  /\ UNCHANGED <<exitCode, completed, preview, retries, concurrency, allUrls, files>>
  /\ UNCHANGED <<crawlVars, urlVars, assetVars, sitemapVars, hostVars>>

\* main going on to the sitemap although the preview never answered.
WaitForServerGoesOn ==
  /\ pc = "waiting"
  /\ network' = TRUE
  /\ pc' = "sitemap"
  /\ \E up \in BOOLEAN :
       message' = IF up THEN message ELSE "Preview server did not respond"
  /\ UNCHANGED <<exitCode, preview>>
  /\ UNCHANGED <<completed, retries, concurrency, allUrls, files>>
  /\ UNCHANGED <<crawlVars, urlVars, assetVars, sitemapVars, env, built>>

\* Lines 375-378: waitForServer polls the preview until it answers, or
\* gives up after its budget.
WaitForServer ==
  /\ pc = "waiting"
  /\ network' = TRUE
  /\ \E up \in BOOLEAN :
       IF up
         THEN pc' = "sitemap" /\ UNCHANGED <<exitCode, preview, message>>
         ELSE ExitFailed("Preview server did not respond")
  /\ UNCHANGED <<completed, retries, concurrency, allUrls, files>>
  /\ UNCHANGED <<crawlVars, urlVars, assetVars, sitemapVars, env, built>>

\* Lines 380-449, to the first await of mapLimit: the sitemap arrives, the
\* output directory is wiped, the build's assets are copied and the runners
\* are started.  When the promise of a runner is rejected already, Promise.all
\* rejects and main's catch clause ends the run.
StartCrawlOn(urls) ==
  /\ pc = "sitemap"
  /\ LET c == mapLimit(urls, concurrency, retries)
     IN /\ urls # <<>>
        /\ allUrls' = urls
        /\ files' = WriteFile({}, AssetFile, "asset")
        /\ queue' = c.queue
        /\ runners' = c.runners
        /\ results' = c.results
        /\ requests' = c.requests
        /\ IF c.rejected
             THEN ExitFailed("Cannot read properties of undefined")
             ELSE /\ pc' = IF c.runners = {} THEN "uploads" ELSE "crawl"
                  /\ UNCHANGED <<exitCode, preview, message>>
  /\ UNCHANGED <<completed, retries, concurrency>>
  /\ UNCHANGED <<urlVars, assetVars, sitemapVars, env, built, network>>

StartCrawl == \E urls \in Sitemaps : StartCrawlOn(urls)

\* main wiping the output directory before it has the URL list.
SitemapFailsAfterWipe ==
  /\ pc = "sitemap"
  /\ \E msg \in {"Failed to fetch pages", "Empty sitemap"} : ExitFailed(msg)
  /\ files' = {}
  /\ UNCHANGED <<completed, retries, concurrency, allUrls>>
  /\ UNCHANGED <<crawlVars, urlVars, assetVars, sitemapVars, env, built, network>>

\* Lines 380-411: generateSitemap throws, or the URL list is empty.
SitemapFails ==
  /\ pc = "sitemap"
  /\ \E msg \in {"Failed to fetch pages", "Empty sitemap"} : ExitFailed(msg)
  /\ UNCHANGED <<completed, retries, concurrency, allUrls, files>>
  /\ UNCHANGED <<crawlVars, urlVars, assetVars, sitemapVars, env, built, network>>

\* The signals and errors main installs handlers for.
Interrupts == {"SIGINT", "SIGTERM", "uncaughtException"}

\* The exit status of a process a signal ended: 128 + the signal's number.
signalExitCode(sig) == IF sig = "SIGINT" THEN 130 ELSE 143

\* SIGINT or SIGTERM arrives, or an exception escapes a callback.  With the
\* handlers of lines 367-373 installed, the handler calls shutdown() and
\* process.exit(1).  Before they are installed a signal has its default
\* action: the process ends at once, no exit event is emitted and nothing
\* of the script runs.
Interrupt(sig) ==
  /\ pc \in {"spawned", "waiting", "sitemap", "crawl", "uploads", "notfound"}
  /\ pc' = "exited"
  /\ IF pc = "spawned"
       THEN /\ sig # "uncaughtException"
            /\ exitCode' = signalExitCode(sig)
            /\ UNCHANGED preview
       ELSE /\ exitCode' = 1
            /\ preview' = shutdown(preview)
  /\ UNCHANGED <<completed, retries, concurrency, allUrls, files>>
  /\ UNCHANGED <<crawlVars, urlVars, assetVars, sitemapVars, hostVars>>

\* The crawl after runner r settled its item with `res` as the results: the
\* runner goes round its loop, and mapLimit returns when no runner is left.
Settle(r, res) ==
  LET c == processQueue([queue |-> queue, results |-> res,
                         runners |-> runners \ {r}, requests |-> requests,
                         worker |-> retries, rejected |-> FALSE])
  IN /\ queue' = c.queue
     /\ runners' = c.runners
     /\ results' = c.results
     /\ requests' = c.requests
     /\ pc' = IF c.runners = {} THEN "uploads" ELSE "crawl"

\* The fetch of a runner's current attempt ends.
Respond(r, outcome) ==
  /\ pc = "crawl"
  /\ r \in runners
  /\ r.phase = "fetch"
  /\ LET step == fetchWithRetryStep(outcome, r.attempt, retries)
         seen == [r EXCEPT !.client = @ \/ outcome = "4xx",
                           !.okAt = IF outcome = "ok" /\ @ = 0 THEN r.sent ELSE @]
     IN CASE step = "return" ->
               /\ runners' = (runners \ {r}) \cup {[seen EXCEPT !.phase = "body"]}
               /\ UNCHANGED <<queue, results, requests, pc>>
          [] step = "retry" ->
               /\ runners' = (runners \ {r}) \cup
                    {[seen EXCEPT !.phase = "backoff", !.delay = backoffDelay(r.attempt)]}
               /\ UNCHANGED <<queue, results, requests, pc>>
          [] step = "throw" ->
               Settle(r, RecordFailure(results, r.item))
  /\ UNCHANGED <<exitCode, completed, preview, retries, concurrency, allUrls, files>>
  /\ UNCHANGED <<urlVars, assetVars, sitemapVars, hostVars>>

\* The backoff timer of a runner fires: the next attempt is issued.
BackoffElapsed(r) ==
  /\ pc = "crawl"
  /\ r \in runners
  /\ r.phase = "backoff"
  /\ runners' = (runners \ {r}) \cup
       {[r EXCEPT !.attempt = @ + 1, !.phase = "fetch", !.delay = 0, !.sent = @ + 1]}
  /\ requests' = requests + 1
  /\ UNCHANGED <<queue, results>>
  /\ UNCHANGED mainVars
  /\ UNCHANGED <<urlVars, assetVars, sitemapVars, hostVars>>

\* The worker asking for the page again when the body could not be read or
\* the file not be written.
BodyDoneRetries(r, written) ==
  /\ pc = "crawl"
  /\ r \in runners
  /\ r.phase = "body"
  /\ IF written
       THEN /\ files' = WriteFile(files, OutputFile(r.item), r.item)
            /\ Settle(r, [results EXCEPT !.success = @ + 1])
       ELSE /\ files' = files
            /\ r.sent <= retries
            /\ runners' = (runners \ {r}) \cup
                 {[r EXCEPT !.attempt = @ + 1, !.phase = "fetch", !.sent = @ + 1]}
            /\ requests' = requests + 1
            /\ UNCHANGED <<queue, results, pc>>
  /\ UNCHANGED <<exitCode, completed, preview, retries, concurrency, allUrls>>
  /\ UNCHANGED <<urlVars, assetVars, sitemapVars, hostVars>>

\* response.text() settles; when it resolves the worker writes the file.
\* Both the read and the write can fail.
BodyDone(r, written) ==
  /\ pc = "crawl"
  /\ r \in runners
  /\ r.phase = "body"
  /\ IF written
       THEN /\ files' = WriteFile(files, OutputFile(r.item), r.item)
            /\ Settle(r, [results EXCEPT !.success = @ + 1])
       ELSE /\ files' = files
            /\ Settle(r, RecordFailure(results, r.item))
  /\ UNCHANGED <<exitCode, completed, preview, retries, concurrency, allUrls>>
  /\ UNCHANGED <<urlVars, assetVars, sitemapVars, hostVars>>

\* Lines 463-469: uploads are copied from a local directory, or the assets
\* the HTML refers to are downloaded; a failed download is skipped.
HandleUploads ==
  /\ pc = "uploads"
  /\ \E got \in {"copied", "downloaded", "nothing"} :
       files' = IF got = "nothing" THEN files ELSE WriteFile(files, UploadsFile, got)
  /\ pc' = "notfound"
  /\ UNCHANGED <<exitCode, completed, preview, retries, concurrency, allUrls>>
  /\ UNCHANGED <<crawlVars, urlVars, assetVars, sitemapVars, hostVars>>

\* Lines 471-482 without the default page.
NotFoundPageNoFallback ==
  /\ pc = "notfound"
  /\ \E has404 \in BOOLEAN :
       files' = IF has404 THEN WriteFile(files, NotFoundHtml, "custom") ELSE files
  /\ pc' = "finish"
  /\ UNCHANGED <<exitCode, completed, preview, retries, concurrency, allUrls>>
  /\ UNCHANGED <<crawlVars, urlVars, assetVars, sitemapVars, hostVars>>

\* Lines 471-482: the preview's own /404, else the default page unless a
\* 404.html is already there.
NotFoundPage ==
  /\ pc = "notfound"
  /\ \E has404 \in BOOLEAN :
       files' = IF has404 THEN WriteFile(files, NotFoundHtml, "custom")
                ELSE IF ~FileExists(files, NotFoundHtml)
                  THEN WriteFile(files, NotFoundHtml, "default")
                ELSE files
  /\ pc' = "finish"
  /\ UNCHANGED <<exitCode, completed, preview, retries, concurrency, allUrls>>
  /\ UNCHANGED <<crawlVars, urlVars, assetVars, sitemapVars, hostVars>>

\* The exit status without the check of renderResults.failed.
finalExitCodeZero(res) == 0

\* The exit status main ends with once the export is complete.
finalExitCode(res) == IF res.failed > 0 THEN 1 ELSE 0

\* Lines 484-492.
Finish ==
  /\ pc = "finish"
  /\ completed' = TRUE
  /\ preview' = shutdown(preview)
  /\ exitCode' = finalExitCode(results)
  /\ pc' = "exited"
  /\ UNCHANGED <<retries, concurrency, allUrls, files>>
  /\ UNCHANGED <<crawlVars, urlVars, assetVars, sitemapVars, hostVars>>

Next ==
  \/ Startup
  \/ InstallHandlers
  \/ WaitForServer
  \/ \E sig \in Interrupts : Interrupt(sig)
  \/ StartCrawl
  \/ SitemapFails
  \/ \E r \in runners : \E outcome \in Outcomes : Respond(r, outcome)
  \/ \E r \in runners : BackoffElapsed(r)
  \/ \E r \in runners : \E written \in BOOLEAN : BodyDone(r, written)
  \/ HandleUploads
  \/ NotFoundPage
  \/ Finish

Spec == Init /\ [][Next]_vars

(***************************************************************************)
(* SpecNormalize: normalizeUrl applied to a raw URL, then to its result.   *)
(***************************************************************************)
InitNormalize ==
  /\ urlString \in Strings(Chars, MaxRawLen)
  /\ other = <<>>
  /\ localePrefix = <<>>
  /\ pathname = NotYet
  /\ pathname2 = NotYet
  /\ prefixed = <<>>
  /\ prefixed2 = <<>>
  /\ InitMainIdle
  /\ InitSitemapIdle
  /\ InitHostIdle

Normalize ==
  /\ pathname = NotYet
  /\ pathname' = normalizeUrl(urlString)
  /\ UNCHANGED <<urlString, other, localePrefix, pathname2, prefixed, prefixed2>>
  /\ UNCHANGED <<mainVars, crawlVars, sitemapVars, hostVars, assetVars>>

NormalizeAgain ==
  /\ pathname # NotYet
  /\ pathname2 = NotYet
  /\ pathname2' = normalizeUrl(pathname)
  /\ UNCHANGED <<urlString, other, localePrefix, pathname, prefixed, prefixed2>>
  /\ UNCHANGED <<mainVars, crawlVars, sitemapVars, hostVars, assetVars>>

NextNormalize == Normalize \/ NormalizeAgain

SpecNormalize == InitNormalize /\ [][NextNormalize]_vars

(***************************************************************************)
(* SpecPrefix: applyLocalePrefix applied to a normalized URL, then to its  *)
(* result.                                                                 *)
(***************************************************************************)
InitPrefix ==
  /\ urlString \in Strings(PathChars, MaxPairLen)
  /\ other = <<>>
  /\ localePrefix \in Strings(PathChars, MaxPrefixLen)
  /\ pathname = NotYet
  /\ pathname2 = NotYet
  /\ prefixed = <<>>
  /\ prefixed2 = <<>>
  /\ InitMainIdle
  /\ InitSitemapIdle
  /\ InitHostIdle

ApplyPrefix ==
  /\ pathname # NotYet
  /\ prefixed = <<>>
  /\ prefixed' = applyLocalePrefix(<<pathname>>, localePrefix)
  /\ UNCHANGED <<urlString, other, localePrefix, pathname, pathname2, prefixed2>>
  /\ UNCHANGED <<mainVars, crawlVars, sitemapVars, hostVars, assetVars>>

ApplyPrefixAgain ==
  /\ prefixed # <<>>
  /\ prefixed2 = <<>>
  /\ prefixed2' = applyLocalePrefix(prefixed, localePrefix)
  /\ UNCHANGED <<urlString, other, localePrefix, pathname, pathname2, prefixed>>
  /\ UNCHANGED <<mainVars, crawlVars, sitemapVars, hostVars, assetVars>>

NextPrefix == Normalize \/ ApplyPrefix \/ ApplyPrefixAgain

SpecPrefix == InitPrefix /\ [][NextPrefix]_vars

(***************************************************************************)
(* SpecOutput: two raw URLs the API returned go through generateSitemap;   *)
(* every page of the sitemap is then written by writeHtmlForPath.          *)
(***************************************************************************)
InitOutput ==
  /\ urlString \in Strings(PathChars, MaxPairLen)
  /\ other \in Strings(PathChars, MaxPairLen)
  /\ localePrefix = <<>>
  /\ pathname = NotYet
  /\ pathname2 = NotYet
  /\ prefixed = <<>>
  /\ prefixed2 = <<>>
  /\ InitMainIdle
  /\ InitSitemapIdle
  /\ InitHostIdle

\* generateSitemap with urlString as the one page and other as the one piece.
SitemapOfPair ==
  /\ pc = "idle"
  /\ allUrls' = generateSitemap(fetchAllPages(<<urlString>>, <<>>), MapNormalize(<<other>>))
  /\ pc' = "sitemap"
  /\ UNCHANGED <<exitCode, completed, preview, retries, concurrency, files>>
  /\ UNCHANGED <<crawlVars, urlVars, assetVars, sitemapVars, hostVars>>

\* The files after every page was fetched and written, in sitemap order.  A
\* page whose URL does not parse is never written.
RECURSIVE writeAll(_, _)
writeAll(urls, fs) ==
  IF urls = <<>> THEN fs
  ELSE writeAll(Tail(urls),
         IF UrlThrows(Head(urls)) THEN fs
         ELSE WriteFile(fs, OutputFile(Head(urls)), Head(urls)))

WritePages ==
  /\ pc = "sitemap"
  /\ files' = writeAll(allUrls, files)
  /\ pc' = "written"
  /\ UNCHANGED <<exitCode, completed, preview, retries, concurrency, allUrls>>
  /\ UNCHANGED <<crawlVars, urlVars, assetVars, sitemapVars, hostVars>>

NextOutput == SitemapOfPair \/ WritePages

SpecOutput == InitOutput /\ [][NextOutput]_vars

(***************************************************************************)
(* SpecSitemap: lines 380-411 of main with generateSitemap, as the API     *)
(* answers.  One generateSitemap call per locale of the configuration, or  *)
(* a single call without locale.                                           *)
(***************************************************************************)
\* The _url values the API answers with.
ApiUrls ==
  {<<>>, <<"/">>, <<"a">>, <<"/", "a", "/">>, <<"/", "a", "/", "a", "#", "a">>,
   <<"/", "a", ".", "a">>, NoUrl}

LocaleEn == [locale |-> <<"e", "n">>, prefix |-> <<>>]

LocaleA == [locale |-> <<"a">>, prefix |-> <<"/", "a">>]

LocaleConfigs ==
  {NoLocaleConfig} \cup
  {[given |-> TRUE, locales |-> l] :
     l \in {<<>>, <<LocaleEn>>, <<LocaleA>>, <<LocaleEn, LocaleA>>, <<LocaleA, LocaleEn>>}}

\* The generateSitemap call of single-locale mode: no locale, no prefix.
NoLocale == [locale |-> <<>>, prefix |-> <<>>]

InitSitemap ==
  /\ pc = "sitemap"
  /\ exitCode = -1
  /\ completed = FALSE
  /\ preview = "running"
  /\ retries = 0
  /\ concurrency = 0
  /\ allUrls = <<>>
  /\ files = OldFiles
  /\ queue = <<>>
  /\ runners = {}
  /\ results = [success |-> 0, failed |-> 0, errors |-> <<>>]
  /\ requests = 0
  /\ InitUrlIdle
  /\ localeConfig \in LocaleConfigs
  /\ todo = <<>>
  /\ pagesDone = <<>>
  /\ collected = <<>>
  /\ disc = NoDiscovery
  /\ api = NoApi
  /\ env = [frontKey |-> TRUE, flag |-> NoFlag, cpus |-> MinPool]
  /\ built = TRUE
  /\ network = TRUE
  /\ message = ""
  /\ assets = NoAssets

\* Line 382-386: the first generateSitemap call is made, or the loop over an
\* empty configuration ends at once and the empty list is rejected.
BeginSitemap ==
  /\ pc = "sitemap"
  /\ IF localeConfig.given /\ localeConfig.locales = <<>>
       THEN /\ ExitFailed("Empty sitemap")
            /\ UNCHANGED todo
       ELSE /\ todo' = IF localeConfig.given THEN localeConfig.locales ELSE <<NoLocale>>
            /\ pc' = "pages"
            /\ UNCHANGED <<exitCode, preview, message>>
  /\ UNCHANGED <<completed, retries, concurrency, allUrls, files>>
  /\ UNCHANGED <<crawlVars, urlVars, assetVars, env, built, network, localeConfig, api, pagesDone, collected, disc>>

\* fetchAllPages of the running call: the page API answers with `pages`.
FetchPagesOf(pages) ==
  /\ pc = "pages"
  /\ pagesDone' = fetchAllPages(pages, Head(todo).locale)
  /\ pc' = "pieces"
  /\ UNCHANGED <<exitCode, completed, preview, retries, concurrency, allUrls, files>>
  /\ UNCHANGED <<crawlVars, urlVars, assetVars, hostVars, localeConfig, api, todo, collected, disc>>

FetchPages == \E pages \in Lists(ApiUrls, MaxItems) : FetchPagesOf(pages)

\* The page API answers with an error status, or not at all: generateSitemap
\* throws and main's catch clause ends the run.
FetchPagesFails ==
  /\ pc = "pages"
  /\ ExitFailed("Failed to fetch pages")
  /\ UNCHANGED <<completed, retries, concurrency, allUrls, files>>
  /\ UNCHANGED <<crawlVars, urlVars, assetVars, sitemapVars, env, built, network>>

\* Line 402: Array.from(new Set(allUrls)).sort()
mergeLocales(urls) == DedupeSort(urls)

\* Lines 408-411: main goes on with the final list unless it is empty.
CheckNotEmpty(urls) ==
  IF urls = <<>>
    THEN ExitFailed("Empty sitemap")
    ELSE pc' = "ready" /\ UNCHANGED <<exitCode, preview, message>>

\* The piece APIs answered `pieces` in all: the running call returns, its
\* URLs are prefixed and pushed, and either the next locale's call is made or
\* the list is final and checked.
FetchPieces ==
  /\ pc = "pieces"
  /\ \E pieces \in Lists(ApiUrls, MaxItems) :
       LET pieceUrls == fetchAllPieces(pieces)
           urls == generateSitemap(pagesDone, pieceUrls)
           prefixedUrls == applyLocalePrefix(urls, Head(todo).prefix)
           last == Tail(todo) = <<>>
       IN IF ~localeConfig.given
            THEN /\ allUrls' = urls
                 /\ collected' = pagesDone \o pieceUrls
                 /\ CheckNotEmpty(urls)
            ELSE /\ allUrls' = IF last THEN mergeLocales(allUrls \o prefixedUrls)
                                ELSE allUrls \o prefixedUrls
                 /\ collected' = collected \o prefixedUrls
                 /\ IF last THEN CheckNotEmpty(mergeLocales(allUrls \o prefixedUrls))
                    ELSE pc' = "pages" /\ UNCHANGED <<exitCode, preview, message>>
  /\ todo' = Tail(todo)
  /\ pagesDone' = <<>>
  /\ UNCHANGED <<completed, retries, concurrency, files>>
  /\ UNCHANGED <<crawlVars, urlVars, assetVars, env, built, network, localeConfig, api, disc>>

NextSitemap == BeginSitemap \/ FetchPages \/ FetchPagesFails \/ FetchPieces

SpecSitemap == InitSitemap /\ [][NextSitemap]_vars

(***************************************************************************)
(* SpecDiscovery: one generateSitemap call of single-locale mode, request  *)
(* by request: the page listing, the probe of the API root, the check of   *)
(* each candidate and heuristic endpoint, each page of each piece type.    *)
(***************************************************************************)
\* What a request of generateSitemap.js comes to: a 2xx response with a JSON
\* body, a non-2xx response, a rejected fetch (a network error, or the abort
\* of fetchWithTimeout), a 2xx response whose body does not parse.
ApiOutcomes == {"ok", "status", "reject", "badjson"}

\* The message of the error a failed request throws.
ErrorMessage(outcome) ==
  IF outcome = "reject" THEN "fetch failed" ELSE "Unexpected token"

\* The keys of RootIndexes that start with "@apostrophecms/".
CoreKeys == {"@apostrophecms/page"}

NonPieceKeys == {"search", "page"}

\* The keys the object answered by GET /api/v1/ enumerates.
RootIndexes ==
  {<<>>, <<"@apostrophecms/page", "page", "thing">>, <<"article", "search">>}

probeCandidates(outcome, keys) ==
  IF outcome = "ok"
    THEN SelectSeq(keys, LAMBDA key : key \notin CoreKeys /\ key \notin NonPieceKeys)
    ELSE <<>>

\* The _url values of the pieces the API answers with.
PieceApiUrls == {<<"a">>, <<"/", "a", ".", "a">>, NoUrl}

\* The body of an endpoint check (perPage=1): `array` tells whether
\* json.results is an array, `results` holds the _url of each element.
CheckBodies == [array : BOOLEAN, results : Lists(PieceApiUrls, 1)]

\* isPieceEndpoint without lines 172-175: an empty result is not accepted.
isPieceEndpointNonEmpty(outcome, body) ==
  /\ outcome = "ok"
  /\ body.array
  /\ body.results # <<>>
  /\ IsTruthy(body.results[1])

isPieceEndpoint(outcome, body) ==
  /\ outcome = "ok"
  /\ body.array
  /\ (body.results # <<>> => IsTruthy(body.results[1]))

heuristicTypes == <<"article", "news", "product", "blog", "event">>

\* Line 200: the heuristic types already discovered are passed over without
\* a request.  The result is the index of the next type to check.
RECURSIVE nextHeuristic(_, _)
nextHeuristic(i, types) ==
  IF i > Len(heuristicTypes) THEN i
  ELSE IF Includes(types, heuristicTypes[i]) THEN nextHeuristic(i + 1, types)
  ELSE i

\* The page size of fetchAllPieces: 100 in the source, here the length of
\* the longest list the API answers with, so that full pages occur.
itemsPerPage == MaxItems

\* --pieceTypes: absent, or the listed types.
PieceTypesOptions ==
  {[given |-> FALSE, types |-> <<>>], [given |-> TRUE, types |-> <<"article", "thing">>]}

\* Lines 256-259: the override skips discovery.
NewDiscovery(pieceTypes) ==
  IF pieceTypes.given
    THEN [stage |-> "fetch", candidates |-> <<>>, heuristic |-> 1,
          types |-> pieceTypes.types, page |-> 1, asked |-> <<>>,
          urls |-> <<>>]
    ELSE [stage |-> "probe", candidates |-> <<>>, heuristic |-> 1,
          types |-> <<>>, page |-> 1, asked |-> <<>>, urls |-> <<>>]

\* discoverPieceTypes up to its next request: the next candidate, else the
\* next heuristic type not yet discovered, else the deduplicated types are
\* returned and fetched.
discoverPieceTypes(d) ==
  IF d.candidates # <<>> THEN [d EXCEPT !.stage = "check"]
  ELSE LET h == nextHeuristic(d.heuristic, d.types)
       IN IF h <= Len(heuristicTypes)
            THEN [d EXCEPT !.stage = "check", !.heuristic = h]
            ELSE [d EXCEPT !.stage = "fetch", !.heuristic = h,
                           !.types = Dedupe(d.types), !.page = 1]

\* generateSitemap goes on to its next request, or returns when no piece
\* type is left to fetch (lines 262-270).
Proceed(d) ==
  IF d.stage = "fetch" /\ d.types = <<>>
    THEN /\ allUrls' = generateSitemap(pagesDone, d.urls)
         /\ disc' = [d EXCEPT !.stage = "done"]
         /\ pc' = "ready"
    ELSE /\ disc' = d
         /\ UNCHANGED <<allUrls, pc>>

InitDiscovery ==
  /\ pc = "pages"
  /\ exitCode = -1
  /\ completed = FALSE
  /\ preview = "running"
  /\ retries = 0
  /\ concurrency = 0
  /\ allUrls = <<>>
  /\ files = OldFiles
  /\ queue = <<>>
  /\ runners = {}
  /\ results = [success |-> 0, failed |-> 0, errors |-> <<>>]
  /\ requests = 0
  /\ InitUrlIdle
  /\ localeConfig = NoLocaleConfig
  /\ todo = <<NoLocale>>
  /\ pagesDone = <<>>
  /\ collected = <<>>
  /\ \E pieceTypes \in PieceTypesOptions : disc = NewDiscovery(pieceTypes)
  /\ api = NoApi
  /\ env = [frontKey |-> TRUE, flag |-> NoFlag, cpus |-> MinPool]
  /\ built = TRUE
  /\ network = TRUE
  /\ message = ""
  /\ assets = NoAssets

\* The key the endpoint check of discoverPieceTypes is awaiting: the next
\* candidate, or the next heuristic type when the candidates are done.
endpointKey(d) ==
  IF d.candidates # <<>> THEN Head(d.candidates) ELSE heuristicTypes[d.heuristic]

\* probeCandidates: GET /api/v1/ is answered.
ProbeRootOf(outcome, keys) ==
  /\ pc = "pieces"
  /\ disc.stage = "probe"
  /\ Proceed(discoverPieceTypes(
       [disc EXCEPT !.candidates = probeCandidates(outcome, keys)]))
  /\ UNCHANGED <<exitCode, completed, preview, retries, concurrency, files>>
  /\ UNCHANGED <<crawlVars, urlVars, assetVars, hostVars, localeConfig, api, todo, pagesDone, collected>>

\* isPieceEndpoint for the next candidate key, or the next heuristic type
\* when the candidates are done, is answered.
CheckEndpointOf(outcome, body) ==
  /\ pc = "pieces"
  /\ disc.stage = "check"
  /\ LET candidate == disc.candidates # <<>>
         checked == [disc EXCEPT
                       !.candidates = IF candidate THEN Tail(@) ELSE @,
                       !.heuristic = IF candidate THEN @ ELSE @ + 1,
                       !.types = IF isPieceEndpoint(outcome, body)
                                   THEN Append(@, endpointKey(disc)) ELSE @]
     IN Proceed(discoverPieceTypes(checked))
  /\ UNCHANGED <<exitCode, completed, preview, retries, concurrency, files>>
  /\ UNCHANGED <<crawlVars, urlVars, assetVars, hostVars, localeConfig, api, todo, pagesDone, collected>>

ProbeRoot == \E outcome \in ApiOutcomes, keys \in RootIndexes : ProbeRootOf(outcome, keys)

CheckEndpoint ==
  \E outcome \in ApiOutcomes, body \in CheckBodies : CheckEndpointOf(outcome, body)

\* The loop going on to the next page after any page that is not empty.
morePagesNonEmpty(answered) == answered # <<>>

\* Line 233: the loop goes on to the next page unless the page was short.
morePages(answered) == Len(answered) >= itemsPerPage

\* fetchAllPieces: page disc.page of the first type left is answered.  A
\* non-2xx response ends the type's pagination; a rejected fetch and an
\* unparsable body throw, nothing between here and main's catch clause
\* catches, and the run ends.  disc.asked lists the pages requested of the
\* type being fetched.
PiecePageOf(outcome, answered) ==
  /\ pc = "pieces"
  /\ disc.stage = "fetch"
  /\ LET asked == IF disc.page = 1 THEN <<1>> ELSE Append(disc.asked, disc.page)
         urls == IF outcome = "ok" THEN disc.urls \o fetchAllPieces(answered)
                 ELSE disc.urls
     IN IF outcome \in {"reject", "badjson"}
          THEN /\ ExitFailed(ErrorMessage(outcome))
               /\ disc' = [disc EXCEPT !.asked = asked]
               /\ UNCHANGED allUrls
          ELSE /\ Proceed(IF outcome = "ok" /\ morePages(answered)
                            THEN [disc EXCEPT !.urls = urls, !.page = @ + 1,
                                              !.asked = asked]
                            ELSE [disc EXCEPT !.urls = urls, !.page = 1,
                                              !.asked = asked,
                                              !.types = Tail(@)])
               /\ UNCHANGED <<exitCode, preview, message>>
  /\ UNCHANGED <<completed, retries, concurrency, files>>
  /\ UNCHANGED <<crawlVars, urlVars, assetVars, env, built, network, localeConfig, api, todo, pagesDone, collected>>

\* The API answers a page with at most itemsPerPage items; the pages and the
\* pieces of one run are bounded.
PiecePage ==
  \E outcome \in ApiOutcomes, answered \in Lists(PieceApiUrls, itemsPerPage) :
    /\ (outcome = "ok" /\ morePages(answered)) => disc.page < MaxPages
    /\ outcome = "ok" => Len(disc.urls) + Len(answered) <= MaxPieces
    /\ PiecePageOf(outcome, answered)

NextDiscovery ==
  FetchPages \/ FetchPagesFails \/ ProbeRoot \/ CheckEndpoint \/ PiecePage

SpecDiscovery == InitDiscovery /\ [][NextDiscovery]_vars

(***************************************************************************)
(* SpecPool: line 314 and the start of mapLimit, for every --concurrency   *)
(* and CPU count, on a sitemap longer than the largest pool: every runner  *)
(* started takes a URL and issues its request.                             *)
(***************************************************************************)
\* Number(value) of --concurrency=value: a count, or NaN when the value is
\* no number or is missing ("--concurrency=auto", "--concurrency 4").
Flags == {NoFlag} \cup {[given |-> TRUE, value |-> v] : v \in {NaN} \cup 0..MaxCount}

\* "/a/", "/aa/", ...: MaxPool + 1 paths in sort order.
LongSitemap ==
  [i \in 1..(MaxPool + 1) |-> <<"/">> \o [j \in 1..i |-> "a"] \o <<"/">>]

InitPool ==
  /\ env \in [frontKey : {TRUE}, flag : Flags, cpus : 1..MaxCount]
  /\ pc = "sitemap"
  /\ exitCode = -1
  /\ completed = FALSE
  /\ preview = "running"
  /\ retries = 0
  /\ concurrency = poolSize(env.flag, env.cpus)
  /\ allUrls = <<>>
  /\ files = OldFiles
  /\ queue = <<>>
  /\ runners = {}
  /\ results = [success |-> 0, failed |-> 0, errors |-> <<>>]
  /\ requests = 0
  /\ InitUrlIdle
  /\ InitSitemapIdle
  /\ built = TRUE
  /\ network = TRUE
  /\ message = ""
  /\ assets = NoAssets

StartPool == StartCrawlOn(LongSitemap)

NextPool == StartPool

SpecPool == InitPool /\ [][NextPool]_vars

(***************************************************************************)
(* SpecAssets: main from the end of the crawl (line 463) to its exit:     *)
(* copyAposUploadsFromFs, extractImagesFromHtml download by download, the  *)
(* 404 page, the end of the export.                                        *)
(***************************************************************************)
\* What a candidate path is on disk: nothing, a file, a directory without
\* entries, a directory with entries.
CandidateStates == {"missing", "file", "empty", "full"}

existsSync(state) == state # "missing"

isDirectory(state) == state \in {"empty", "full"}

readdirSync(state) == IF state = "full" THEN <<UploadsFile>> ELSE <<>>

\* Line 215-216.
hasUploads(state) ==
  existsSync(state) /\ isDirectory(state) /\ Len(readdirSync(state)) > 0

RECURSIVE copyAposUploadsFromFsAll(_, _)
RECURSIVE copyAposUploadsFromFs(_, _)
\* The loop without its return: every candidate with uploads is copied.
copyAposUploadsFromFsAll(candidates, i) ==
  IF i > NumCandidates THEN <<>>
  ELSE IF hasUploads(candidates[i])
    THEN <<i>> \o copyAposUploadsFromFsAll(candidates, i + 1)
  ELSE copyAposUploadsFromFsAll(candidates, i + 1)

\* The loop of lines 214-223 from candidate i on: the candidates copied.
\* The function returns true when the result is not empty.
copyAposUploadsFromFs(candidates, i) ==
  IF i > NumCandidates THEN <<>>
  ELSE IF hasUploads(candidates[i]) THEN <<i>>
  ELSE copyAposUploadsFromFs(candidates, i + 1)

Http == <<"h", "t", "t", "p">>

\* aposHost: "http://h"
AposHost == Http \o <<":", "/", "/", "h">>

UploadsFileB == <<"u", "p", "l", "o", "a", "d", "s", "/", "b">>

\* The attribute values urlRegex matches: /uploads/a as a path and behind
\* aposHost, and /uploads/b.
RefPool ==
  {<<"/">> \o UploadsFile, AposHost \o <<"/">> \o UploadsFile, <<"/">> \o UploadsFileB}

\* Line 183.
fullUrl(uploadUrl) ==
  IF StartsWith(uploadUrl, Http) THEN uploadUrl ELSE AposHost \o uploadUrl

\* Line 184: fullUrl.replace(/^https?:\/\/[^/]+/, "")
relativePath(url) ==
  LET scheme == IF StartsWith(url, Http \o <<"s", ":", "/", "/">>) THEN 8
                ELSE IF StartsWith(url, Http \o <<":", "/", "/">>) THEN 7
                ELSE 0
      rest == SubSeq(url, scheme + 1, Len(url))
      host == IndexOfAny(rest, {"/"}) - 1
  IN IF scheme = 0 \/ host = 0 THEN url ELSE SubSeq(rest, host + 1, Len(rest))

\* Line 185: path.join(staticDir, relativePath), relative to staticDir.
destPath(uploadUrl) == PathJoin(relativePath(fullUrl(uploadUrl)))

\* walkDirectory: the .html files of the output directory.
htmlFiles(fs) == {f \in fs : EndsWith(f.path, <<".", "h", "t", "m", "l">>)}

RECURSIVE Flatten(_)
Flatten(lists) ==
  IF lists = <<>> THEN <<>> ELSE Head(lists) \o Flatten(Tail(lists))

\* The matches of urlRegex in n HTML files: the file and the attribute value.
Matches(n) == [file : 1..n, url : RefPool]

\* The attribute values matched in the k-th file, in their order.
MatchesIn(scan, k) ==
  LET found == SelectSeq(scan, LAMBDA m : m.file = k)
  IN [i \in 1..Len(found) |-> found[i].url]

\* Lines 154-172: the Set of the attribute values matched in the n HTML
\* files, file by file, in insertion order.
uploadUrls(n, scan) == Dedupe(Flatten([k \in 1..n |-> MatchesIn(scan, k)]))

\* The sitemap that was crawled.
CrawledUrls == <<<<"/">>, <<"/", "a", "/">>>>

InitAssets ==
  /\ pc = "uploads"
  /\ exitCode = -1
  /\ completed = FALSE
  /\ preview = "running"
  /\ retries = 0
  /\ concurrency = MinPool
  /\ allUrls = CrawledUrls
  /\ \E pageFailed \in BOOLEAN, dist404 \in BOOLEAN :
       LET none == [success |-> 0, failed |-> 0, errors |-> <<>>]
           dist == WriteFile(IF dist404 THEN WriteFile({}, NotFoundHtml, "asset") ELSE {},
                             AssetFile, "asset")
       IN /\ results = IF pageFailed
                         THEN RecordFailure([none EXCEPT !.success = 1], CrawledUrls[2])
                         ELSE [none EXCEPT !.success = 2]
          /\ files = writeAll(IF pageFailed THEN <<CrawledUrls[1]>> ELSE CrawledUrls, dist)
  /\ queue = <<>>
  /\ runners = {}
  /\ requests = Len(CrawledUrls)
  /\ InitUrlIdle
  /\ InitSitemapIdle
  /\ env = [frontKey |-> TRUE, flag |-> NoFlag, cpus |-> MinPool]
  /\ built = TRUE
  /\ network = TRUE
  /\ message = ""
  /\ \E candidates \in [1..NumCandidates -> CandidateStates] :
       assets = [NoAssets EXCEPT !.candidates = candidates]

\* Lines 463-469 to the first await of extractImagesFromHtml: uploads are
\* copied from the first candidate that has some; without one the HTML files
\* are scanned and either nothing is referenced or the first download starts.
ReconcileUploads ==
  /\ pc = "uploads"
  /\ LET copied == copyAposUploadsFromFs(assets.candidates, 1)
         n == Cardinality(htmlFiles(files))
     IN IF copied # <<>>
          THEN /\ files' = WriteFile(files, UploadsFile, "copied")
               /\ assets' = [assets EXCEPT !.copied = copied]
               /\ pc' = "notfound"
          ELSE \E scan \in Lists(Matches(n), MaxRefs) :
                 /\ assets' = [assets EXCEPT !.scanned = TRUE,
                                             !.pending = uploadUrls(n, scan)]
                 /\ pc' = IF uploadUrls(n, scan) = <<>> THEN "notfound" ELSE "download"
                 /\ UNCHANGED files
  /\ UNCHANGED <<exitCode, completed, preview, retries, concurrency, allUrls>>
  /\ UNCHANGED <<crawlVars, urlVars, sitemapVars, hostVars>>

\* Lines 181-196: the download of the first pending upload URL settles; a
\* failure (fetchWithRetry throws after its retries, or the body cannot be
\* read) is counted and the loop goes on.
DownloadAsset ==
  /\ pc = "download"
  /\ \E ok \in BOOLEAN :
       LET uploadUrl == Head(assets.pending)
       IN /\ files' = IF ok THEN WriteFile(files, destPath(uploadUrl), "downloaded")
                      ELSE files
          /\ assets' = [assets EXCEPT
                          !.pending = Tail(@),
                          !.attempts = Append(@, destPath(uploadUrl)),
                          !.downloaded = IF ok THEN @ + 1 ELSE @,
                          !.failed = IF ok THEN @ ELSE @ + 1]
  /\ pc' = IF Tail(assets.pending) = <<>> THEN "notfound" ELSE "download"
  /\ UNCHANGED <<exitCode, completed, preview, retries, concurrency, allUrls>>
  /\ UNCHANGED <<crawlVars, urlVars, sitemapVars, hostVars>>

NextAssets == ReconcileUploads \/ DownloadAsset \/ NotFoundPage \/ Finish

SpecAssets == InitAssets /\ [][NextAssets]_vars

(***************************************************************************)
(* SpecPages: fetchAllPages on every answer of the page API, without a     *)
(* locale and with one.                                                    *)
(***************************************************************************)
InitPages ==
  /\ pc = "pages"
  /\ exitCode = -1
  /\ completed = FALSE
  /\ preview = "running"
  /\ retries = 0
  /\ concurrency = 0
  /\ allUrls = <<>>
  /\ files = OldFiles
  /\ queue = <<>>
  /\ runners = {}
  /\ results = [success |-> 0, failed |-> 0, errors |-> <<>>]
  /\ requests = 0
  /\ InitUrlIdle
  /\ \E locale \in {NoLocale, LocaleEn, LocaleA} :
       /\ todo = <<locale>>
       /\ localeConfig = IF locale = NoLocale THEN NoLocaleConfig
                         ELSE [given |-> TRUE, locales |-> <<locale>>]
  /\ \E pages \in Lists(ApiUrls, MaxItems) : api = [NoApi EXCEPT !.pages = pages]
  /\ pagesDone = <<>>
  /\ collected = <<>>
  /\ disc = NoDiscovery
  /\ InitHostIdle

\* The page API answers with api.pages.
ListPages == FetchPagesOf(api.pages)

NextPages == ListPages

SpecPages == InitPages /\ [][NextPages]_vars

(***************************************************************************)
(* SpecTypes: discoverPieceTypes against an API whose answers are fixed:   *)
(* the root index and, endpoint by endpoint, the answer to the check.      *)
(***************************************************************************)
\* The keys discoverPieceTypes can come to check.
EndpointKeys ==
  (UNION {{keys[i] : i \in DOMAIN keys} : keys \in RootIndexes}
     \cup {heuristicTypes[i] : i \in DOMAIN heuristicTypes})
    \ (CoreKeys \cup NonPieceKeys)

\* An endpoint that does not exist: 404.
NotFound == [outcome |-> "status", body |-> [array |-> FALSE, results |-> <<>>]]

\* What an endpoint answers to the check.
EndpointAnswers ==
  {[outcome |-> "ok", body |-> body] : body \in CheckBodies}
    \cup {[outcome |-> outcome, body |-> NotFound.body] : outcome \in ApiOutcomes \ {"ok"}}

\* The APIs in which at most MaxEndpoints endpoints answer otherwise than 404.
Endpoints ==
  UNION {{[key \in EndpointKeys |-> IF key \in present THEN answers[key] ELSE NotFound] :
            answers \in [present -> EndpointAnswers \ {NotFound}]} :
         present \in {keys \in SUBSET EndpointKeys : Cardinality(keys) <= MaxEndpoints}}

\* What GET /api/v1/ answers.
RootAnswers ==
  {[outcome |-> "ok", keys |-> keys] : keys \in RootIndexes}
    \cup {[outcome |-> outcome, keys |-> <<>>] : outcome \in ApiOutcomes \ {"ok"}}

InitTypes ==
  /\ pc = "pieces"
  /\ exitCode = -1
  /\ completed = FALSE
  /\ preview = "running"
  /\ retries = 0
  /\ concurrency = 0
  /\ allUrls = <<>>
  /\ files = OldFiles
  /\ queue = <<>>
  /\ runners = {}
  /\ results = [success |-> 0, failed |-> 0, errors |-> <<>>]
  /\ requests = 0
  /\ InitUrlIdle
  /\ localeConfig = NoLocaleConfig
  /\ \E root \in RootAnswers, endpoints \in Endpoints :
       api = [NoApi EXCEPT !.root = root, !.endpoints = endpoints]
  /\ todo = <<NoLocale>>
  /\ pagesDone = <<<<"/">>>>
  /\ collected = <<>>
  /\ disc = NewDiscovery([given |-> FALSE, types |-> <<>>])
  /\ InitHostIdle

ProbeRootApi == ProbeRootOf(api.root.outcome, api.root.keys)

CheckEndpointApi ==
  LET answer == api.endpoints[endpointKey(disc)]
  IN CheckEndpointOf(answer.outcome, answer.body)

NextTypes == ProbeRootApi \/ CheckEndpointApi

SpecTypes == InitTypes /\ [][NextTypes]_vars

(***************************************************************************)
(* SpecPieces: fetchAllPieces against a collection that is fixed: the API  *)
(* answers page n with the n-th slice of itemsPerPage items, except that   *)
(* the request of page api.failAt, if any, fails as api.failWith says.     *)
(***************************************************************************)
\* What the API answers for page n of a collection at page size itemsPerPage.
PageOf(collection, n) ==
  SubSeq(collection, (n - 1) * itemsPerPage + 1,
         IF n * itemsPerPage <= Len(collection) THEN n * itemsPerPage
         ELSE Len(collection))

\* The collections: up to two full pages.
Collections == Lists(PieceApiUrls, 2 * itemsPerPage)

InitPieces ==
  /\ pc = "pieces"
  /\ exitCode = -1
  /\ completed = FALSE
  /\ preview = "running"
  /\ retries = 0
  /\ concurrency = 0
  /\ allUrls = <<>>
  /\ files = OldFiles
  /\ queue = <<>>
  /\ runners = {}
  /\ results = [success |-> 0, failed |-> 0, errors |-> <<>>]
  /\ requests = 0
  /\ InitUrlIdle
  /\ localeConfig = NoLocaleConfig
  /\ \E collection \in Collections, failAt \in 0..3, failWith \in ApiOutcomes \ {"ok"} :
       /\ failAt = 0 => failWith = "status"
       /\ api = [NoApi EXCEPT !.collection = collection, !.failAt = failAt,
                              !.failWith = failWith]
  /\ todo = <<NoLocale>>
  /\ pagesDone = <<<<"/">>>>
  /\ collected = <<>>
  /\ disc = NewDiscovery([given |-> TRUE, types |-> <<"thing">>])
  /\ InitHostIdle

\* The request of page disc.page is answered by the API.
PiecePageApi ==
  PiecePageOf(IF disc.page = api.failAt THEN api.failWith ELSE "ok",
              PageOf(api.collection, disc.page))

NextPieces == PiecePageApi

\* ENABLED <<NextPieces>>_vars: a request of fetchAllPieces is awaited (the
\* step appends to disc.asked, so it changes the state).
PiecePageAwaited == pc = "pieces" /\ disc.stage = "fetch"

\* Every awaited request is answered or fails: fetchWithTimeout aborts a
\* request that got no response within 30 s (line 221).  This is weak
\* fairness of NextPieces, with its enabling condition written out.
SpecPieces ==
  /\ InitPieces
  /\ [][NextPieces]_vars
  /\ ([]<>~PiecePageAwaited \/ []<><<NextPieces>>_vars)

(***************************************************************************)
(* SpecRetries: the crawl and what follows it for every --retries: line    *)
(* 315 takes Number(value) as it is, a count, a negative number, or NaN.   *)
(***************************************************************************)
\* Number(value) of --retries=value: NaN when the value is no number or is
\* missing ("--retries=many", "--retries 5").
RetriesFlags == {NaN} \cup (-1..1)

InitRetries ==
  /\ pc = "sitemap"
  /\ exitCode = -1
  /\ completed = FALSE
  /\ preview = "running"
  /\ retries \in RetriesFlags
  /\ concurrency = MinPool
  /\ allUrls = <<>>
  /\ files = OldFiles
  /\ queue = <<>>
  /\ runners = {}
  /\ results = [success |-> 0, failed |-> 0, errors |-> <<>>]
  /\ requests = 0
  /\ InitUrlIdle
  /\ InitSitemapIdle
  /\ env = [frontKey |-> TRUE, flag |-> NoFlag, cpus |-> MinPool]
  /\ built = TRUE
  /\ network = TRUE
  /\ message = ""
  /\ assets = NoAssets

NextRetries ==
  \/ StartCrawl
  \/ \E r \in runners : \E outcome \in Outcomes : Respond(r, outcome)
  \/ \E r \in runners : BackoffElapsed(r)
  \/ \E r \in runners : \E written \in BOOLEAN : BodyDone(r, written)
  \/ HandleUploads
  \/ NotFoundPage
  \/ Finish

SpecRetries == InitRetries /\ [][NextRetries]_vars

(***************************************************************************)
(* Properties.                                                             *)
(***************************************************************************)

\* C1: a 4xx response other than 429 ends fetchWithRetry at once: no further
\* request is issued for the item, so no runner whose item was answered 4xx
\* is still awaiting a fetch or a backoff timer.
C1_NoRetryAfter4xx == \A r \in runners : ~r.client

\* C2 as stated: an item whose attempts were k transient failures and then
\* a 2xx is recorded once as a success and never as a failure when its
\* runner settles it.
C2_RecordedSuccess ==
  [][\A r \in runners :
       (r.phase = "body" /\ ~r.client /\ r \notin runners')
         => /\ results'.success = results.success + 1
            /\ \A i \in DOMAIN results'.errors : results'.errors[i].item # r.item]_vars

\* C2, amended: an item whose attempts were k transient failures and then a
\* 2xx (k <= retries) had exactly k + 1 requests issued and gets no further
\* one; when its body is read and its file written, it is recorded once as
\* a success and never as a failure.
C2_SuccessAfterTransient ==
  /\ [](\A r \in runners :
          r.okAt > 0 => /\ r.phase = "body"
                        /\ r.sent = r.okAt
                        /\ r.sent = r.attempt + 1
                        /\ r.attempt <= retries)
  /\ [][\A r \in runners :
          (/\ r.phase = "body"
           /\ ~r.client
           /\ r \notin runners'
           /\ [path |-> OutputFile(r.item), content |-> r.item] \in files')
            => /\ results'.success = results.success + 1
               /\ \A i \in DOMAIN results'.errors : results'.errors[i].item # r.item]_vars

\* A 2xx arrived on the last attempt the budget allows, after transient
\* failures only.
C2_Witness ==
  \E r \in runners :
    /\ r.phase = "body"
    /\ ~r.client
    /\ r.attempt = retries
    /\ r.attempt >= 2
    /\ r.okAt = r.attempt + 1

\* C3: the number of page fetches in flight (runners whose worker has not
\* settled) never exceeds the concurrency limit.
C3_InFlightBounded == Cardinality(runners) <= concurrency

\* The pool is full while items are still queued.
C3_Witness ==
  /\ pc = "crawl"
  /\ queue # <<>>
  /\ Cardinality(runners) = concurrency

\* C4: the requests issued for sitemap URLs never exceed
\* urls.length * (retries + 1).
C4_RequestBudget == requests <= Len(allUrls) * (retries + 1)

\* Every URL of the sitemap used its whole budget.
C4_Witness ==
  /\ pc = "uploads"
  /\ retries >= 1
  /\ Len(allUrls) >= 2
  /\ requests = Len(allUrls) * (retries + 1)

\* C5: the Output File Mapping is injective over a deduplicated sitemap of
\* normalizeUrl results: two distinct URL paths are never written to the
\* same file.
C5_OutputInjective ==
  pc = "written" =>
    \A i, j \in DOMAIN allUrls :
      (i # j /\ ~UrlThrows(allUrls[i]) /\ ~UrlThrows(allUrls[j]))
        => OutputFile(allUrls[i]) # OutputFile(allUrls[j])

\* C6: normalizeUrl is idempotent: normalizeUrl(normalizeUrl(s)) equals
\* normalizeUrl(s) for every input s.
C6_Idempotent == pathname2 # NotYet => pathname2 = pathname

\* C7: the result of normalizeUrl begins with "/", holds no query and no
\* fragment, and ends with exactly one "/" when it is not file-like.
C7_NormalForm ==
  pathname # NotYet =>
    /\ StartsWith(pathname, <<"/">>)
    /\ ~Includes(pathname, "?")
    /\ ~Includes(pathname, "#")
    /\ ~isFileLike(pathname) =>
         (EndsWith(pathname, <<"/">>) /\ ~EndsWith(pathname, <<"/", "/">>))

\* C8 as stated: for a non-empty prefix p the result of applyLocalePrefix
\* starts with p followed by "/"; a URL already under p is unchanged;
\* applying the function again changes nothing; an empty prefix changes
\* nothing.
C8_AlwaysUnderPrefix ==
  prefixed # <<>> =>
    /\ localePrefix # <<>> => StartsWith(prefixed[1], localePrefix \o <<"/">>)
    /\ (localePrefix # <<>> /\ StartsWith(pathname, localePrefix \o <<"/">>))
         => prefixed[1] = pathname
    /\ prefixed2 # <<>> => prefixed2 = prefixed
    /\ localePrefix = <<>> => prefixed[1] = pathname

\* C8, amended: for a non-empty prefix p the result of applyLocalePrefix
\* starts with p followed by "/" for every URL path other than p itself; a
\* URL equal to p, like a URL already under p, is unchanged; applying the
\* function again changes nothing; an empty prefix changes nothing.
C8_UnderPrefixUnlessEqual ==
  prefixed # <<>> =>
    /\ (localePrefix # <<>> /\ pathname # localePrefix)
         => StartsWith(prefixed[1], localePrefix \o <<"/">>)
    /\ (localePrefix # <<>> /\ (StartsWith(pathname, localePrefix \o <<"/">>)
                                  \/ pathname = localePrefix))
         => prefixed[1] = pathname
    /\ prefixed2 # <<>> => prefixed2 = prefixed
    /\ localePrefix = <<>> => prefixed[1] = pathname

\* The prefix was put in front of a URL that was not under it, and a second
\* application left the result alone.
C8_Witness ==
  /\ localePrefix # <<>>
  /\ pathname # <<"/">>
  /\ prefixed = <<localePrefix \o pathname>>
  /\ prefixed2 = prefixed

\* C9: the URL list handed to the crawler holds no duplicates and is in
\* ascending order, in single-locale and in multi-locale mode: it is the
\* strictly ascending list of the URLs that went into the final merge, so
\* the order in which the API returned them does not show.
C9_SortedNoDuplicates ==
  pc = "ready" =>
    /\ \A i \in 1..(Len(allUrls) - 1) : StrLess(allUrls[i], allUrls[i + 1])
    /\ {allUrls[i] : i \in DOMAIN allUrls} = {collected[i] : i \in DOMAIN collected}

\* Two locales contributed, out of order and with a URL in common.
C9_Witness ==
  /\ pc = "ready"
  /\ localeConfig.given
  /\ Len(localeConfig.locales) = 2
  /\ Len(collected) > Len(allUrls)
  /\ \E i \in 1..(Len(collected) - 1) : StrLess(collected[i + 1], collected[i])

\* C10: at the end of an export that reached the end of the pipeline the
\* exit status is non-zero exactly when at least one URL was recorded as
\* failed, and it is 0 only when every sitemap URL was recorded as a
\* success.
C10_ExitStatus ==
  (pc = "exited" /\ completed) =>
    /\ exitCode # 0 <=> Len(results.errors) > 0
    /\ exitCode = 0 => results.success = Len(allUrls)

\* An export completed with some pages written and some failed.
C10_Witness ==
  /\ pc = "exited"
  /\ completed
  /\ exitCode = 1
  /\ results.success > 0
  /\ Len(results.errors) > 0

\* C11: a URL whose fetch fails after its retries does not abort the crawl:
\* when mapLimit has returned every URL of the sitemap was taken off the
\* queue and settled, succeeded + failed is the number of sitemap URLs, and
\* the error list holds exactly one entry, with URL and message, per failed
\* URL.
C11_FailuresAccounted ==
  pc \in {"uploads", "notfound", "finish"} =>
    /\ queue = <<>>
    /\ runners = {}
    /\ results.success + results.failed = Len(allUrls)
    /\ Len(results.errors) = results.failed
    /\ \A i \in DOMAIN results.errors :
         /\ \E k \in DOMAIN allUrls : allUrls[k] = results.errors[i].item
         /\ results.errors[i].error = "message"
         /\ \A j \in DOMAIN results.errors : results.errors[j].item = results.errors[i].item => j = i

\* The first URL of the sitemap failed and a later one was written.
C11_Witness ==
  /\ pc = "uploads"
  /\ Len(allUrls) = 3
  /\ retries >= 1
  /\ results.failed = 1
  /\ results.errors[1].item = allUrls[1]
  /\ results.success = 2

\* C12: when the crawl has finished, the page files the crawler wrote are
\* as many as the URLs recorded as successful.
C12_OneFilePerSuccess ==
  pc \in {"uploads", "notfound", "finish"} =>
    Cardinality({f \in files : \E k \in DOMAIN allUrls : f.path = OutputFile(allUrls[k])})
      = results.success

\* C13: once the preview server child was spawned, on every path by which
\* the process ends shutdown has sent the child its termination signal: the
\* process never exits with the child still running.
C13_ChildNeverLeft == (pc = "exited" /\ preview # "none") => preview = "killed"

\* C14: every fatal condition (no front key, build failure, preview never
\* ready, page listing failure, empty sitemap) ends the run with a non-zero
\* exit status with the output directory as it was and no crawl fetch issued.
C14_FatalBeforeWipe ==
  (pc = "exited"
   /\ message \in {"APOS_EXTERNAL_FRONT_KEY is required", "Astro build failed",
                    "Preview server did not respond", "Failed to fetch pages",
                    "Empty sitemap"})
    => /\ exitCode # 0
       /\ files = OldFiles
       /\ requests = 0
       /\ allUrls = <<>>

\* The run ended on an empty sitemap, the preview having been started.
C14_Witness ==
  /\ pc = "exited"
  /\ message = "Empty sitemap"
  /\ preview = "killed"
  /\ exitCode = 1

\* C15: without APOS_EXTERNAL_FRONT_KEY main exits with status 1 before the
\* build is run, before the preview is spawned and before any request.
C15_NoKeyExitsFirst ==
  ~env.frontKey =>
    /\ pc \in {"start", "exited"}
    /\ ~built
    /\ ~network
    /\ preview = "none"
    /\ requests = 0
    /\ pc = "exited" => (exitCode = 1 /\ message = "APOS_EXTERNAL_FRONT_KEY is required")

\* The run ended on the missing key.
C15_Witness ==
  /\ pc = "exited"
  /\ ~env.frontKey
  /\ exitCode = 1

\* C16 as stated: once the primary page listing was fetched, no failure of
\* a later request of generateSitemap (the probe of the API root, an
\* endpoint check, a page of a piece list) makes the call fail: the run
\* ends in an error only while the page listing is still outstanding.
C16_DiscoveryNeverFails == pc = "exited" => pagesDone = <<>>

\* C17 as stated: with c the --concurrency value, or the CPU count when the
\* flag is absent, mapLimit starts min(8, max(2, c)) workers, and for every
\* value of the flag at least 2 and at most 8.  On a sitemap longer than 8
\* every worker started has issued one request when mapLimit first awaits.
C17_PoolSize ==
  pc \in {"crawl", "uploads"} =>
    LET c == IF env.flag.given THEN env.flag.value ELSE env.cpus
    IN /\ c # NaN => requests = Min(MaxPool, Max(MinPool, c))
       /\ requests \in MinPool..MaxPool

\* C18: once the uploads were handled, the candidate copied is the first in
\* the listed order that is a directory with entries, and it is the only
\* one; the HTML is scanned, and downloads are attempted, only when no
\* candidate is such a directory, and then the scan always happens.
C18_FirstLocalWins ==
  pc \in {"download", "notfound", "finish", "exited"} =>
    LET full == {i \in 1..NumCandidates : assets.candidates[i] = "full"}
    IN IF full # {}
         THEN /\ assets.copied = <<CHOOSE i \in full : \A j \in full : i <= j>>
              /\ ~assets.scanned
              /\ assets.pending = <<>> /\ assets.attempts = <<>>
              /\ FileExists(files, UploadsFile)
         ELSE /\ assets.copied = <<>>
              /\ assets.scanned

\* C18 witness: the first candidate is an empty directory, the second has
\* uploads, the third is a file, the fourth has uploads too: the second was
\* copied.
C18_Witness ==
  /\ pc = "notfound"
  /\ assets.candidates = <<"empty", "full", "file", "full">>
  /\ assets.copied = <<2>>

\* C19 as stated: no upload path is attempted twice; after the downloads
\* every collected URL was attempted, failed or not, and the function
\* returned; the exit status is the one the pages alone give.
C19_EachPathOnce ==
  /\ \A i, j \in DOMAIN assets.attempts :
       assets.attempts[i] = assets.attempts[j] => i = j
  /\ (pc \in {"notfound", "finish", "exited"} /\ assets.scanned) =>
       /\ assets.pending = <<>>
       /\ assets.downloaded + assets.failed = Len(assets.attempts)
  /\ pc = "exited" => exitCode = finalExitCode(results)

\* C20: an export reported complete has a 404.html in its output root; and
\* the step that settles it leaves a 404.html that is the preview's own
\* page, or else the default page when there was none before, or else the
\* one that was there, untouched.
C20_NotFoundPageExists ==
  /\ [](completed => FileExists(files, NotFoundHtml))
  /\ [][pc = "notfound" =>
          /\ FileExists(files', NotFoundHtml)
          /\ LET page == CHOOSE f \in files' : f.path = NotFoundHtml
             IN \/ page.content = "custom"
                \/ IF FileExists(files, NotFoundHtml) THEN files' = files
                   ELSE page.content = "default"]_vars

\* C20 witness: the export is complete, the build brought no 404.html and
\* the preview's /404 was not available: the default page is there.
C20_Witness ==
  /\ completed
  /\ \E f \in files : f.path = NotFoundHtml /\ f.content = "default"

\* C21 as stated: after the output directory was wiped, no file is written
\* twice, by two crawl tasks or by two writers: every write of the crawl,
\* of the upload handling and of the 404 step creates a path that was not
\* there.
C21_NoFileWrittenTwice ==
  [][(pc \in {"crawl", "uploads", "notfound"} /\ Paths(files') = Paths(files))
       => files' = files]_vars

\* C22: the list fetchAllPages returns holds a root: "/" without a locale,
\* "/" or "/L/" with locale L; and it holds a "/" the API did not return
\* exactly when the API returned neither "/" nor, with a locale, "/L/".
C22_RootPresent ==
  pc = "pieces" =>
    LET locale == Head(todo).locale
        home == <<"/">> \o locale \o <<"/">>
        returned == {normalizeUrl(api.pages[i]) :
                       i \in {k \in DOMAIN api.pages : api.pages[k] # NoUrl}}
        roots == IF locale = <<>> THEN {<<"/">>} ELSE {<<"/">>, home}
        added == Includes(pagesDone, <<"/">>) /\ <<"/">> \notin returned
    IN /\ \E i \in DOMAIN pagesDone : pagesDone[i] \in roots
       /\ added <=> returned \cap roots = {}
       /\ \A i \in DOMAIN pagesDone : pagesDone[i] \in returned \cup {<<"/">>}

\* C22 witness: with locale "a" the API returned "/a/" and no "/": the list
\* holds "/a/" and no bare root.
C22_Witness ==
  /\ pc = "pieces"
  /\ Head(todo).locale = <<"a">>
  /\ Includes(pagesDone, <<"/", "a", "/">>)
  /\ ~Includes(pagesDone, <<"/">>)

lastPage(a) ==
  CHOOSE n \in 1..(Len(a.collection) \div itemsPerPage + 1) :
    /\ n = a.failAt \/ Len(PageOf(a.collection, n)) < itemsPerPage
    /\ \A m \in 1..(n - 1) :
         m # a.failAt /\ Len(PageOf(a.collection, m)) = itemsPerPage

\* The items of the pages fetchAllPieces got a 2xx answer for.
fetchedItems(a) ==
  IF lastPage(a) = a.failAt
    THEN SubSeq(a.collection, 1, (lastPage(a) - 1) * itemsPerPage)
    ELSE a.collection

\* C24: fetchAllPieces requests the pages 1, 2, 3, ... of the collection in
\* order, requests page n + 1 only after page n was answered 2xx with a full
\* page, stops at the first short page, returns the normalized URL of every
\* item with a URL on the pages it fetched, and terminates.
C24_Pagination ==
  /\ []((pc = "pieces" /\ disc.stage = "fetch")
          => /\ disc.asked = [n \in 1..(disc.page - 1) |-> n]
             /\ \A n \in 1..(disc.page - 1) :
                  /\ n # api.failAt
                  /\ Len(PageOf(api.collection, n)) = itemsPerPage)
  /\ [](pc = "ready"
          => /\ disc.asked = [n \in 1..lastPage(api) |-> n]
             /\ disc.urls = [i \in 1..Len(SelectSeq(fetchedItems(api), IsTruthy)) |->
                               normalizeUrl(SelectSeq(fetchedItems(api), IsTruthy)[i])]
             /\ allUrls = DedupeSort(pagesDone \o disc.urls))
  /\ [](pc = "exited"
          => /\ api.failWith \in {"reject", "badjson"}
             /\ disc.asked = [n \in 1..api.failAt |-> n])
  /\ <>(pc # "pieces")

\* A collection of one full page and one short page, one item without URL:
\* two pages were requested and the other items' URLs returned.
C24_Witness ==
  /\ pc = "ready"
  /\ disc.asked = <<1, 2>>
  /\ Len(api.collection) = itemsPerPage + 1
  /\ api.failAt = 0
  /\ \E i \in DOMAIN api.collection : api.collection[i] = NoUrl
  /\ Len(disc.urls) = itemsPerPage

\* The run ended because the build failed or the preview never got ready.
PreviewFailed ==
  message \in {"Astro build failed", "Preview server did not respond"}

\* C25: the preview is spawned only by the step that saw the build exit
\* zero; nothing is requested of the backend or of the preview's pages, and
\* main does not reach the sitemap, before waitForServer got its 2xx
\* answer; a failed build or a preview that never answers ends the run
\* with status 1 from the build or from the wait, without any crawl; the
\* child, once spawned, is only ever killed.
C25_PreviewLifecycle ==
  /\ [](/\ preview # "none" => (built /\ message # "Astro build failed")
        /\ pc \in {"start", "spawned", "waiting"}
             => (requests = 0 /\ runners = {} /\ allUrls = <<>> /\ files = OldFiles)
        /\ pc \in {"start", "spawned"} => ~network
        /\ PreviewFailed
             => /\ pc = "exited"
                /\ exitCode = 1
                /\ requests = 0
                /\ allUrls = <<>>
                /\ preview = IF message = "Astro build failed" THEN "none" ELSE "killed")
  /\ [][/\ (preview = "none" /\ preview' # "none")
             => (pc = "start" /\ pc' = "spawned" /\ built' /\ preview' = "running")
        /\ pc' = "sitemap" => (pc = "waiting" /\ preview = "running" /\ message' = "")
        /\ (PreviewFailed' /\ ~PreviewFailed) => pc \in {"start", "waiting"}
        /\ preview' # preview
             => (preview = "none" \/ (preview = "running" /\ preview' = "killed"))]_vars

\* The preview was spawned and never answered: the run ended failed, the
\* child killed, nothing crawled.
C25_Witness ==
  /\ pc = "exited"
  /\ message = "Preview server did not respond"
  /\ preview = "killed"
  /\ built
  /\ network

\* C26 as stated: when pages failed during the crawl, the run ends with a
\* non-zero status only after the asset reconciliation, the not-found page
\* and the shutdown of the preview, in this order: the failures make it
\* skip none of them.
C26_LaterStepsRun ==
  /\ []((pc = "exited" /\ results.failed > 0)
          => /\ completed
             /\ exitCode = 1
             /\ preview = "killed"
             /\ FileExists(files, NotFoundHtml))
  /\ [][(results.failed > 0 /\ pc' # pc)
          => \/ pc = "sitemap" /\ pc' \in {"crawl", "uploads"}
             \/ pc = "crawl" /\ pc' = "uploads"
             \/ pc = "uploads" /\ pc' = "notfound"
             \/ pc = "notfound" /\ pc' = "finish"
             \/ pc = "finish" /\ pc' = "exited" /\ preview' = "killed"]_vars

\* C27 as stated, as far as it constrains where the run can stop: no URL
\* gets more than retries + 1 attempts, and the crawl always finishes, so
\* the run does not go past the crawl, and does not end, before the queue
\* has drained and every worker has returned, and it ends only with its
\* final report made.
C27_CrawlFinishes ==
  /\ \A r \in runners : r.sent <= retries + 1
  /\ pc \in {"uploads", "notfound", "finish", "exited"}
       => (queue = <<>> /\ runners = {})
  /\ pc = "exited" => completed

C29_EachUrlOnce ==
  /\ Len(queue) + Cardinality(runners) + results.success + results.failed = Len(allUrls)
  /\ Len(results.errors) = results.failed
  /\ queue = SubSeq(allUrls, Len(allUrls) - Len(queue) + 1, Len(allUrls))
  /\ \A r1, r2 \in runners : r1.item = r2.item => r1 = r2
  /\ \A r \in runners :
       /\ \E k \in 1..(Len(allUrls) - Len(queue)) : allUrls[k] = r.item
       /\ \A i \in DOMAIN results.errors : results.errors[i].item # r.item

\* The entries of the error list that name the item.
ErrorsOf(res, item) == {i \in DOMAIN res.errors : res.errors[i].item = item}

\* C30: the retries cover the request up to its response status only.  Once
\* a page request was answered 2xx no further request is issued for its
\* URL; if reading the body or writing the file then fails, the URL is
\* recorded once as failed and not as a success, no file is written for
\* it, and no worker takes it again.
C30_NoRetryAfter2xx ==
  /\ [](/\ \A r \in runners : r.phase = "body" <=> r.okAt = r.sent
        /\ \A r \in runners : ErrorsOf(results, r.item) = {}
        /\ \A i \in DOMAIN results.errors :
             Cardinality(ErrorsOf(results, results.errors[i].item)) = 1
        /\ results.success + Len(results.errors) + Cardinality(runners) + Len(queue)
             = Len(allUrls))
  /\ [][\A r \in runners :
          (r.phase = "body" /\ r \notin runners')
            => /\ \A q \in runners' : q.item # r.item
               /\ requests' - requests = Cardinality(runners') - Cardinality(runners) + 1
               /\ \/ /\ results'.success = results.success + 1
                     /\ ErrorsOf(results', r.item) = {}
                  \/ /\ results'.success = results.success
                     /\ Cardinality(ErrorsOf(results', r.item)) = 1
                     /\ files' = files]_vars

\* The one URL of the sitemap was answered 2xx at the first request, with
\* two retries left, and is recorded as failed: its body or its file failed.
C30_Witness ==
  /\ pc = "uploads"
  /\ Len(allUrls) = 1
  /\ retries = 2
  /\ requests = 1
  /\ results.failed = 1
  /\ results.success = 0
  /\ Len(results.errors) = 1
  /\ files = {[path |-> AssetFile, content |-> "asset"]}

====
